---- MODULE Spec2Model ----
(***************************************************************************)
(* Bloom filter (package bloomfilter): bit-array membership engine, union, *)
(* construction validation, binary wire codec and lock discipline.         *)
(*                                                                         *)
(* A uint64 is represented by the set of its 1-bit positions (0..63), so   *)
(* the full 64-bit width is kept: XOR is symmetric difference, OR is       *)
(* union, >> and << move positions, + is a ripple-carry sum modulo 2^64.   *)
(***************************************************************************)
EXTENDS Integers, Sequences, FiniteSets, TLC

\* ------------------------------------------------------------------------
\* Program constants
\* ------------------------------------------------------------------------
MMin == 2
KMin == 1
Uint64Bytes == 8
Size384 == 48

\* ------------------------------------------------------------------------
\* Bounds of the model
\* ------------------------------------------------------------------------
MaxN == 2
MaxAlloc == 9

\* ------------------------------------------------------------------------
\* uint64 arithmetic on bit sets
\* ------------------------------------------------------------------------
BitPos == 0..63

MaxOf(S) == CHOOSE x \in S : \A y \in S : y <= x

\* the uint64 with the value of the natural number v
RECURSIVE U64From(_, _)
U64From(v, i) ==
  IF v = 0 THEN {}
  ELSE (IF v % 2 = 1 THEN {i} ELSE {}) \cup U64From(v \div 2, i + 1)
U64(v) == U64From(v, 0)

\* a uint64 whose value fits a model integer
Fits(a) == \A i \in a : i <= 29

RECURSIVE ToNat(_)
ToNat(a) == IF a = {} THEN 0 ELSE LET i == CHOOSE j \in a : TRUE IN (2^i) + ToNat(a \ {i})

One64 == {0}

UMax == BitPos
\* 0x3f
Mask3f == {0, 1, 2, 3, 4, 5}
\* 63
C63 == {0, 1, 2, 3, 4, 5}

Xor64(a, b) == (a \ b) \cup (b \ a)
Or64(a, b) == a \cup b
And64(a, b) == a \cap b
Shr64(a, s) == {i - s : i \in {j \in a : j >= s}}
Shl64(a, s) == {i + s : i \in {j \in a : j + s <= 63}}

\* unsigned a < b: the highest bit in which they differ belongs to b
Lt64(a, b) == a # b /\ MaxOf(Xor64(a, b)) \in b

\* the carry into bit i of a + b: some lower bit j generates it and every
\* bit between j and i passes it on
Carry(a, b, i) ==
  \E j \in (a \cap b) : j < i /\ \A l \in (j + 1)..(i - 1) : l \in a \/ l \in b

\* a + b modulo 2^64
Add64(a, b) ==
  LET top == IF a \cup b = {} THEN 0 ELSE MaxOf(a \cup b) + 1
  IN {i \in 0..(IF top > 63 THEN 63 ELSE top) :
        ((i \in a) # (i \in b)) # Carry(a, b, i)}

\* a % m for m # 0: small operands directly, others by long division from
\* bit i of a downwards with the remainder r so far
\* r2 - m for m <= r2 < 2 * m, r2 of up to 65 bits: the difference is
\* below m, and its bit i is set when the bits i of r2 and m and the borrow
\* out of the bits below i are odd in number; the borrow is set when the
\* bits of r2 below i are a smaller number than those of m
Below(a, i) == {j \in a : j < i}
SubWide(r2, m) ==
  {i \in 0..MaxOf(m) :
     ((i \in r2) # (i \in m)) # Lt64(Below(r2, i), Below(m, i))}
ModStep(a, m, i, r2) == IF 64 \in r2 \/ ~Lt64(r2, m) THEN SubWide(r2, m) ELSE r2
RECURSIVE ModFrom(_, _, _, _)
ModFrom(a, m, i, r) ==
  IF i < 0 \/ ~Lt64(r, m) THEN r
  ELSE ModFrom(a, m, i - 1,
               ModStep(a, m, i, {j + 1 : j \in r} \cup (IF i \in a THEN {0} ELSE {})))
Mod64(a, m) ==
  IF Lt64(a, m) THEN a
  ELSE IF Fits(a) /\ Fits(m) THEN U64(ToNat(a) % ToNat(m))
  ELSE ModFrom(a, m, MaxOf(a), {})

\* ------------------------------------------------------------------------
\* Inputs drawn by the callers of the package
\* ------------------------------------------------------------------------
Slots == {1, 2, 3}
K12 == <<U64(1), U64(2)>>
K21 == <<U64(2), U64(1)>>
\* what the caller passes to the constructors in the membership/union runs:
\* the first variable always gets the same width and keys, the others also
\* a different width in the same number of words, a different key order or
\* a different key count
UnionInputs(s) ==
  IF s = 1 THEN {<<U64(65), K12>>}
  ELSE {<<U64(65), K12>>, <<U64(70), K12>>, <<U64(65), K21>>, <<U64(65), <<U64(1)>> >>}
\* what the caller passes to the constructors in the construction runs
BuildSlots == {1, 2}
InputMs == {U64(0), U64(1), U64(2), U64(64), U64(65)}
InputKeys == {<< >>, <<U64(1)>>, <<U64(1), U64(1)>>, K12, K21}
InputKs == {U64(0), U64(1), U64(2), UMax}
RandKeyVals == {U64(1), U64(2)}
Hashes == {U64(42), U64(66)}
Values == {[sum64 |-> h] : h \in Hashes}
\* what the caller passes in the runs of the calls on single filters
K123 == <<U64(1), U64(2), U64(3)>>
FilterInputs == {<<U64(64), K123>>, <<U64(65), K12>>, <<U64(2), <<U64(1)>> >>}
FilterHashes == {U64(42), U64(41), U64(66)}
FilterValues == {[sum64 |-> h] : h \in FilterHashes}

\* ------------------------------------------------------------------------
\* State
\* ------------------------------------------------------------------------
VARIABLES
  filters,   \* the Filter structs held by the caller: m, n and the two slices
  heap,      \* backing arrays of the slices, by address
  status,    \* "none": zero Filter, "ok": built, "failed": failed deserialize
  caller,    \* address of the key slice the caller still holds, or Nil
  last,      \* operation that ran last and what it returned
  added,     \* per filter, the hashes inserted into it (history)
  threads,   \* per thread, the call it runs and where it stands in it
  locks,     \* per filter, the state of its lock
  wire       \* the serialized form in flight, what it was made from, the
             \* position of the byte changed in it, the filter it was read
             \* into last and the bytes read from it then

vars == <<filters, heap, status, caller, last, added, threads, locks, wire>>

Nil == 0
Slice(h, a) == IF a = Nil THEN << >> ELSE h[a]
Zeros(len) == [i \in 1..len |-> {}]

\* type Filter struct, zero value
ZeroFilter == [m |-> {}, n |-> {}, keys |-> Nil, bits |-> Nil]

MMin64 == U64(MMin)
KMin64 == U64(KMin)

\* make([]uint64, len) succeeds for lengths the modelled machine can hold
AllocOK(len) == Fits(len) /\ ToNat(len) <= MaxAlloc
Alloc(h, s) ==
  LET a == IF DOMAIN h = {} THEN 1 ELSE MaxOf(DOMAIN h) + 1
  IN [err |-> "nil", h |-> h @@ (a :> s), a |-> a]
Fail(e, h) == [err |-> e, h |-> h, a |-> Nil]

\* the builtin copy(dst, src)
CopySlice(dst, src) ==
  [i \in 1..Len(dst) |-> IF i <= Len(src) THEN src[i] ELSE dst[i]]

\* ------------------------------------------------------------------------
\* Construction
\* ------------------------------------------------------------------------
uniqueKeys(keys) ==
  \A j \in 1..(Len(keys) - 1) : \A i \in (j + 1)..Len(keys) : keys[i] # keys[j]

newBits(h, m) ==
  IF Lt64(m, MMin64) THEN Fail("config", h)
  ELSE LET len == Shr64(Add64(m, C63), 6)
       IN IF AllocOK(len) THEN Alloc(h, Zeros(ToNat(len))) ELSE Fail("panic", h)

newKeysBlank(h, k) ==
  IF Lt64(k, KMin64) THEN Fail("config", h)
  ELSE IF AllocOK(k) THEN Alloc(h, Zeros(ToNat(k))) ELSE Fail("panic", h)

\* newKeysCopy that hands back the caller's slice
newKeysCopyAlias(h, origKeys) ==
  IF ~uniqueKeys(Slice(h, origKeys)) THEN Fail("config", h)
  ELSE IF Len(Slice(h, origKeys)) < KMin THEN Fail("config", h)
  ELSE [err |-> "nil", h |-> h, a |-> origKeys]

newKeysCopy(h, origKeys) ==
  IF ~uniqueKeys(Slice(h, origKeys)) THEN Fail("config", h)
  ELSE LET r == newKeysBlank(h, U64(Len(Slice(h, origKeys))))
       IN IF r.err # "nil" THEN r
          ELSE [r EXCEPT !.h[r.a] = CopySlice(@, Slice(h, origKeys))]

\* returns the error, the heap after the call and the new Filter struct;
\* b and k are what newBits and newKeysCopy returned
NewWithKeysOf(h, m, b, k) ==
  IF b.err # "nil" THEN [err |-> b.err, h |-> h, f |-> ZeroFilter]
  ELSE IF k.err # "nil" THEN [err |-> k.err, h |-> h, f |-> ZeroFilter]
  ELSE [err |-> "nil", h |-> k.h,
        f |-> [m |-> m, n |-> {}, bits |-> b.a, keys |-> k.a]]
NewWithKeys(h, m, origKeys) ==
  LET b == newBits(h, m)
      k == newKeysCopy(b.h, origKeys)
  IN NewWithKeysOf(h, m, b, k)

NewCompatible(h, f) == NewWithKeys(h, f.m, f.keys)

\* Keys(): a fresh slice holding the filter's keys
Keys(h, f) == Alloc(h, Slice(h, f.keys))

\* ------------------------------------------------------------------------
\* Add, AddHash, Contains, ContainsHash
\* ------------------------------------------------------------------------
Sum64(v) == v.sum64

\* SetBit with the bit offset masked by 0x1f
SetBitMask1f(bits, i) ==
  LET w == Shr64(i, 6)
  IN IF Fits(w) /\ ToNat(w) < Len(bits)
     THEN [panic |-> FALSE,
           bits |-> [bits EXCEPT ![ToNat(w) + 1] =
                       Or64(@, Shl64(One64, ToNat(And64(i, {0, 1, 2, 3, 4}))))]]
     ELSE [panic |-> TRUE, bits |-> bits]

\* bits[i>>6] |= 1 << uint(i&0x3f); panics when the word index is out of range
SetBit(bits, i) ==
  LET w == Shr64(i, 6)
  IN IF Fits(w) /\ ToNat(w) < Len(bits)
     THEN [panic |-> FALSE,
           bits |-> [bits EXCEPT ![ToNat(w) + 1] =
                       Or64(@, Shl64(One64, ToNat(And64(i, Mask3f))))]]
     ELSE [panic |-> TRUE, bits |-> bits]

\* (bits[i>>6] >> uint(i&0x3f)) & 1; -1 when the word index is out of range
GetBit(bits, i) ==
  LET w == Shr64(i, 6)
  IN IF Fits(w) /\ ToNat(w) < Len(bits)
     THEN ToNat(And64(Shr64(bits[ToNat(w) + 1], ToNat(And64(i, Mask3f))), One64))
     ELSE -1

\* the loop of Add from key index n on (0-based, as in the code)
RECURSIVE AddLoop(_, _, _, _, _)
AddLoop(bits, keys, m, hash, n) ==
  IF ~(n < Len(keys)) THEN [panic |-> FALSE, bits |-> bits]
  ELSE IF m = {} THEN [panic |-> TRUE, bits |-> bits]
  ELSE LET r == SetBit(bits, Mod64(Xor64(hash, keys[n + 1]), m))
       IN IF r.panic THEN r ELSE AddLoop(r.bits, keys, m, hash, n + 1)

\* the loop of AddHash without the XOR with the key
RECURSIVE AddHashLoopNoXor(_, _, _, _, _)
AddHashLoopNoXor(bits, keys, m, hash, n) ==
  IF ~(n < Len(keys)) THEN [panic |-> FALSE, bits |-> bits]
  ELSE IF m = {} THEN [panic |-> TRUE, bits |-> bits]
  ELSE LET r == SetBit(bits, Mod64(hash, m))
       IN IF r.panic THEN r ELSE AddHashLoopNoXor(r.bits, keys, m, hash, n + 1)

\* the loop of AddHash
RECURSIVE AddHashLoop(_, _, _, _, _)
AddHashLoop(bits, keys, m, hash, n) ==
  IF ~(n < Len(keys)) THEN [panic |-> FALSE, bits |-> bits]
  ELSE IF m = {} THEN [panic |-> TRUE, bits |-> bits]
  ELSE LET r == SetBit(bits, Mod64(Xor64(hash, keys[n + 1]), m))
       IN IF r.panic THEN r ELSE AddHashLoop(r.bits, keys, m, hash, n + 1)

\* the loop of Contains: r is 1 or 0, -1 stands for a panic
RECURSIVE ContainsLoop(_, _, _, _, _, _)
ContainsLoop(bits, keys, m, hash, n, r) ==
  IF ~(n < Len(keys) /\ r # 0) THEN r
  ELSE IF m = {} THEN -1
  ELSE LET b == GetBit(bits, Mod64(Xor64(hash, keys[n + 1]), m))
       IN IF b = -1 THEN -1
          ELSE ContainsLoop(bits, keys, m, hash, n + 1, IF r = 1 /\ b = 1 THEN 1 ELSE 0)

\* the loop of ContainsHash with r |= in place of r &=
RECURSIVE ContainsHashLoopOr(_, _, _, _, _, _)
ContainsHashLoopOr(bits, keys, m, hash, n, r) ==
  IF ~(n < Len(keys) /\ r # 0) THEN r
  ELSE IF m = {} THEN -1
  ELSE LET b == GetBit(bits, Mod64(Xor64(hash, keys[n + 1]), m))
       IN IF b = -1 THEN -1
          ELSE ContainsHashLoopOr(bits, keys, m, hash, n + 1, IF r = 1 \/ b = 1 THEN 1 ELSE 0)

\* the loop of ContainsHash
RECURSIVE ContainsHashLoop(_, _, _, _, _, _)
ContainsHashLoop(bits, keys, m, hash, n, r) ==
  IF ~(n < Len(keys) /\ r # 0) THEN r
  ELSE IF m = {} THEN -1
  ELSE LET b == GetBit(bits, Mod64(Xor64(hash, keys[n + 1]), m))
       IN IF b = -1 THEN -1
          ELSE ContainsHashLoop(bits, keys, m, hash, n + 1, IF r = 1 /\ b = 1 THEN 1 ELSE 0)

uint64ToBool(x) == x # 0

\* f.Contains(v) and f.ContainsHash(hash) on a filter read out of the heap:
\* 1 for true, 0 for false, -1 for a panic
Contains(f, v) == ContainsLoop(f.bits, f.keys, f.m, Sum64(v), 0, 1)
ContainsHash(f, hash) == ContainsHashLoop(f.bits, f.keys, f.m, hash, 0, 1)

\* ------------------------------------------------------------------------
\* Compatibility, Copy, UnionInPlace, Union
\* ------------------------------------------------------------------------
\* equal bit width and the same key sequence
IsCompatible(h, f, f2) ==
  f.m = f2.m /\ Slice(h, f.keys) = Slice(h, f2.keys)

\* UnionInPlaceLoop that also writes the argument's words
RECURSIVE UnionInPlaceLoopBoth(_, _, _, _, _)
UnionInPlaceLoopBoth(h, fbits, f2bits, len, i) ==
  IF ~(i < len) THEN [panic |-> FALSE, h |-> h]
  ELSE IF ~(i < Len(Slice(h, fbits))) THEN [panic |-> TRUE, h |-> h]
  ELSE UnionInPlaceLoopBoth(
         [h EXCEPT ![fbits][i + 1] = Or64(@, h[f2bits][i + 1]),
                   ![f2bits][i + 1] = Or64(@, h[fbits][i + 1])],
         fbits, f2bits, len, i + 1)

\* for i, bitword := range f2.bits { f.bits[i] |= bitword }, on the heap
RECURSIVE UnionInPlaceLoop(_, _, _, _, _)
UnionInPlaceLoop(h, fbits, f2bits, len, i) ==
  IF ~(i < len) THEN [panic |-> FALSE, h |-> h]
  ELSE IF ~(i < Len(Slice(h, fbits))) THEN [panic |-> TRUE, h |-> h]
  ELSE UnionInPlaceLoop([h EXCEPT ![fbits][i + 1] = Or64(@, h[f2bits][i + 1])],
                        fbits, f2bits, len, i + 1)

\* UnionLoop with &^ in place of |
RECURSIVE UnionLoopAndNot(_, _, _, _, _, _)
UnionLoopAndNot(h, outbits, fbits, f2bits, len, i) ==
  IF ~(i < len) THEN [panic |-> FALSE, h |-> h]
  ELSE IF ~(i < Len(Slice(h, fbits)) /\ i < Len(Slice(h, outbits)))
       THEN [panic |-> TRUE, h |-> h]
  ELSE UnionLoopAndNot([h EXCEPT ![outbits][i + 1] = h[fbits][i + 1] \ h[f2bits][i + 1]],
                       outbits, fbits, f2bits, len, i + 1)

\* for i, bitword := range f2.bits { out.bits[i] = f.bits[i] | bitword }
RECURSIVE UnionLoop(_, _, _, _, _, _)
UnionLoop(h, outbits, fbits, f2bits, len, i) ==
  IF ~(i < len) THEN [panic |-> FALSE, h |-> h]
  ELSE IF ~(i < Len(Slice(h, fbits)) /\ i < Len(Slice(h, outbits)))
       THEN [panic |-> TRUE, h |-> h]
  ELSE UnionLoop([h EXCEPT ![outbits][i + 1] = Or64(h[fbits][i + 1], h[f2bits][i + 1])],
                 outbits, fbits, f2bits, len, i + 1)

\* UnionInPlace without the compatibility check
UnionInPlaceUnchecked(h, f, f2) ==
  LET r == UnionInPlaceLoop(h, f.bits, f2.bits, Len(Slice(h, f2.bits)), 0)
  IN IF r.panic THEN [err |-> "panic", h |-> r.h, f |-> f]
     ELSE [err |-> "nil", h |-> r.h, f |-> [f EXCEPT !.n = Add64(f.n, f2.n)]]

\* f.UnionInPlace(f2): the error, the heap and the receiver afterwards
UnionInPlace(h, f, f2) ==
  IF ~IsCompatible(h, f, f2) THEN [err |-> "incompatible", h |-> h, f |-> f]
  ELSE LET r == UnionInPlaceLoop(h, f.bits, f2.bits, Len(Slice(h, f2.bits)), 0)
       IN IF r.panic THEN [err |-> "panic", h |-> r.h, f |-> f]
          ELSE [err |-> "nil", h |-> r.h, f |-> [f EXCEPT !.n = Add64(f.n, f2.n)]]

\* Union that merges into the receiver's own bit array and returns it
UnionShared(h, f, f2) ==
  IF ~IsCompatible(h, f, f2) THEN [err |-> "incompatible", h |-> h, f |-> ZeroFilter]
  ELSE LET r == UnionLoop(h, f.bits, f.bits, f2.bits, Len(Slice(h, f2.bits)), 0)
       IN IF r.panic THEN [err |-> "panic", h |-> h, f |-> ZeroFilter]
          ELSE [err |-> "nil", h |-> r.h, f |-> [f EXCEPT !.n = Add64(f.n, f2.n)]]

\* f.Union(f2): the error, the heap and the new filter
Union(h, f, f2) ==
  IF ~IsCompatible(h, f, f2) THEN [err |-> "incompatible", h |-> h, f |-> ZeroFilter]
  ELSE LET o == NewCompatible(h, f)
       IN IF o.err # "nil" THEN o
          ELSE LET r == UnionLoop(o.h, o.f.bits, f.bits, f2.bits,
                                  Len(Slice(h, f2.bits)), 0)
               IN IF r.panic THEN [err |-> "panic", h |-> h, f |-> ZeroFilter]
                  ELSE [err |-> "nil", h |-> r.h,
                        f |-> [o.f EXCEPT !.n = Add64(f.n, f2.n)]]

\* Copy that hands back the receiver's own arrays
CopyShared(h, f) == [err |-> "nil", h |-> h, f |-> f]

\* f.Copy()
Copy(h, f) ==
  LET o == NewCompatible(h, f)
  IN IF o.err # "nil" THEN o
     ELSE [err |-> "nil",
           h |-> [o.h EXCEPT ![o.f.bits] = CopySlice(@, Slice(h, f.bits))],
           f |-> [o.f EXCEPT !.n = f.n]]

\* ------------------------------------------------------------------------
\* Binary form: encoding/binary little endian, the SHA-384 trailer
\* ------------------------------------------------------------------------
\* An element of a byte stream is <<b>> for the byte b.  SHA-384 is taken
\* to be collision free: the digest of data is the 48 elements of which the
\* first holds data itself, so that digests are equal exactly when the
\* hashed bytes are.
B(b) == <<b>>
ByteVal(e) == IF Len(e) = 1 THEN e[1] ELSE 0
ZeroBytes(len) == [i \in 1..len |-> B(0)]
Sum384(data) == [i \in 1..Size384 |-> IF i = 1 THEN <<1, data>> ELSE <<i, << >> >>]

\* binary.LittleEndian.PutUint64 and binary.LittleEndian.Uint64
RECURSIVE ByteOf(_, _, _)
ByteOf(v, i, j) ==
  IF j > 7 THEN 0
  ELSE (IF 8 * i + j \in v THEN 2^j ELSE 0) + ByteOf(v, i, j + 1)
PutUint64(v) == [i \in 1..Uint64Bytes |-> B(ByteOf(v, i - 1, 0))]
\* Uint64 reading the bytes most significant first
Uint64BigEndian(bs) ==
  {p \in BitPos : (ByteVal(bs[Uint64Bytes - (p \div 8)]) \div (2^(p % 8))) % 2 = 1}

Uint64(bs) ==
  {p \in BitPos : (ByteVal(bs[(p \div 8) + 1]) \div (2^(p % 8))) % 2 = 1}

RECURSIVE PutUint64s(_)
PutUint64s(ws) == IF ws = << >> THEN << >> ELSE PutUint64(Head(ws)) \o PutUint64s(Tail(ws))
Uint64s(bs, len) ==
  [i \in 1..len |-> Uint64(SubSeq(bs, Uint64Bytes * (i - 1) + 1, Uint64Bytes * i))]

\* MarshalBinary: k, n, m, the keys, the words of the bit array, then the
\* SHA-384 digest of all the bytes before it
MarshalBody(f) ==
  PutUint64(U64(Len(f.keys))) \o PutUint64(f.n) \o PutUint64(f.m)
    \o PutUint64s(f.keys) \o PutUint64s(f.bits)
MarshalBinary(f) == MarshalBody(f) \o Sum384(MarshalBody(f))

\* An io.Reader over the bytes in[pos+1..].  bytes.NewBuffer(data): Read(p)
\* takes what is there, at most len(p) bytes.  A reader that hands out at
\* most chunk bytes a call (chunk = 0: no limit), and that returns io.EOF
\* together with the last bytes when eof is set, as io.Reader allows.
NewBuffer(data) == [in |-> data, pos |-> 0, chunk |-> 0, eof |-> FALSE]
ChunkedReader(data, chunk, eof) == [in |-> data, pos |-> 0, chunk |-> chunk, eof |-> eof]

\* hashingReader over the reader input: Read(p) counts the bytes it got and,
\* unless the reader returned an error, hashes the whole of p
NewReader(input) ==
  [in |-> input.in, pos |-> input.pos, chunk |-> input.chunk, eof |-> input.eof,
   tot |-> 0, hashed |-> << >>]
hashingReaderRead(r, p) ==
  LET avail == Len(r.in) - r.pos
      lim == IF r.chunk = 0 \/ Len(p) < r.chunk THEN Len(p) ELSE r.chunk
      n == IF avail < lim THEN avail ELSE lim
      q == [i \in 1..Len(p) |-> IF i <= n THEN r.in[r.pos + i] ELSE p[i]]
  IN IF n = 0 /\ Len(p) > 0
     THEN [r |-> r, p |-> p, n |-> 0, err |-> "EOF"]
     ELSE IF r.eof /\ n > 0 /\ r.pos + n = Len(r.in)
     THEN [r |-> [r EXCEPT !.pos = @ + n, !.tot = @ + n], p |-> q, n |-> n, err |-> "EOF"]
     ELSE [r |-> [r EXCEPT !.pos = @ + n, !.tot = @ + n, !.hashed = @ \o q],
           p |-> q, n |-> n, err |-> "nil"]

\* io.ReadFull as binary.Read calls it: buf[1..n] is filled already; an
\* error that comes with the last bytes asked for is dropped
RECURSIVE ReadFull(_, _, _)
ReadFullNext(r, buf, n, x) ==
  IF x.err # "nil" /\ n + x.n < Len(buf)
  THEN [r |-> x.r, p |-> SubSeq(buf, 1, n) \o x.p,
        err |-> IF n + x.n > 0 THEN "UnexpectedEOF" ELSE "EOF"]
  ELSE ReadFull(x.r, SubSeq(buf, 1, n) \o x.p, n + x.n)
ReadFull(r, buf, n) ==
  IF n >= Len(buf) THEN [r |-> r, p |-> buf, err |-> "nil"]
  ELSE ReadFullNext(r, buf, n, hashingReaderRead(r, SubSeq(buf, n + 1, Len(buf))))

\* binary.Read(r, binary.LittleEndian, &v) for a uint64 v that holds 0
ReadUint64Of(x) ==
  [r |-> x.r, err |-> x.err, v |-> IF x.err = "nil" THEN Uint64(x.p) ELSE {}]
ReadUint64(r) == ReadUint64Of(ReadFull(r, ZeroBytes(Uint64Bytes), 0))

\* unmarshalBinaryHeader: k, n and m are the three reads, in this order
\* the last step of unmarshalBinaryHeader without the check of m
unmarshalBinaryHeaderMUnchecked(k, n, m) ==
  IF m.err # "nil" THEN [r |-> m.r, k |-> k.v, n |-> n.v, m |-> {}, err |-> m.err]
  ELSE [r |-> m.r, k |-> k.v, n |-> n.v, m |-> m.v, err |-> "nil"]

unmarshalBinaryHeaderM(k, n, m) ==
  IF m.err # "nil" THEN [r |-> m.r, k |-> k.v, n |-> n.v, m |-> {}, err |-> m.err]
  ELSE IF Lt64(m.v, MMin64)
  THEN [r |-> m.r, k |-> k.v, n |-> n.v, m |-> m.v, err |-> "errM"]
  ELSE [r |-> m.r, k |-> k.v, n |-> n.v, m |-> m.v, err |-> "nil"]
unmarshalBinaryHeaderN(k, n) ==
  IF n.err # "nil" THEN [r |-> n.r, k |-> k.v, n |-> {}, m |-> {}, err |-> n.err]
  ELSE unmarshalBinaryHeaderM(k, n, ReadUint64(n.r))
unmarshalBinaryHeaderK(k) ==
  IF k.err # "nil" THEN [r |-> k.r, k |-> {}, n |-> {}, m |-> {}, err |-> k.err]
  ELSE IF Lt64(k.v, KMin64)
  THEN [r |-> k.r, k |-> k.v, n |-> {}, m |-> {}, err |-> "errK"]
  ELSE unmarshalBinaryHeaderN(k, ReadUint64(k.r))
unmarshalBinaryHeader(r) == unmarshalBinaryHeaderK(ReadUint64(r))

\* the loop of unmarshalBinaryBits: one Read into the same 8 byte buffer
\* for every word
RECURSIVE unmarshalBinaryBitsLoop(_, _, _, _)
unmarshalBinaryBitsWord(bits, i, x) ==
  IF x.err # "nil" THEN [r |-> x.r, bits |-> bits, err |-> x.err]
  ELSE unmarshalBinaryBitsLoop(x.r, [bits EXCEPT ![i + 1] = Uint64(x.p)], x.p, i + 1)
unmarshalBinaryBitsLoop(r, bits, bs, i) ==
  IF i >= Len(bits) THEN [r |-> r, bits |-> bits, err |-> "nil"]
  ELSE unmarshalBinaryBitsWord(bits, i, hashingReaderRead(r, bs))

unmarshalBinaryBitsRead(b, x) ==
  [r |-> x.r, h |-> [b.h EXCEPT ![b.a] = x.bits], a |-> b.a, err |-> x.err]
unmarshalBinaryBitsNew(r, b) ==
  IF b.err # "nil" THEN [r |-> r, h |-> b.h, a |-> Nil, err |-> b.err]
  ELSE unmarshalBinaryBitsRead(
         b, unmarshalBinaryBitsLoop(r, Slice(b.h, b.a), ZeroBytes(Uint64Bytes), 0))
unmarshalBinaryBits(h, r, m) == unmarshalBinaryBitsNew(r, newBits(h, m))

unmarshalBinaryKeysRead(c, k, x) ==
  IF x.err # "nil" THEN [r |-> x.r, h |-> c.h, a |-> c.a, err |-> x.err]
  ELSE [r |-> x.r, h |-> [c.h EXCEPT ![c.a] = Uint64s(x.p, k)], a |-> c.a, err |-> "nil"]
unmarshalBinaryKeys(h, r, k) ==
  IF ~AllocOK(k) THEN [r |-> r, h |-> h, a |-> Nil, err |-> "panic"]
  ELSE unmarshalBinaryKeysRead(Alloc(h, Zeros(ToNat(k))), ToNat(k),
                               ReadFull(r, ZeroBytes(Uint64Bytes * ToNat(k)), 0))

\* UnmarshalFromReader on the filter f: the fields of f are assigned as the
\* code assigns them, also on the paths that return an error
\* the end of UnmarshalFromReader without the comparison of the digests
UnmarshalHashUnchecked(h, f, gotHash, ex) ==
  IF ex.err # "nil" THEN [err |-> ex.err, h |-> h, f |-> f, tot |-> ex.r.tot]
  ELSE [err |-> "nil", h |-> h, f |-> f, tot |-> ex.r.tot]

UnmarshalHash(h, f, gotHash, ex) ==
  IF ex.err # "nil" THEN [err |-> ex.err, h |-> h, f |-> f, tot |-> ex.r.tot]
  ELSE IF ex.p # gotHash THEN [err |-> "errHash", h |-> h, f |-> f, tot |-> ex.r.tot]
  ELSE [err |-> "nil", h |-> h, f |-> f, tot |-> ex.r.tot]
UnmarshalBits(h, f, bs) ==
  IF bs.err = "panic" THEN [err |-> "panic", h |-> h, f |-> f, tot |-> bs.r.tot]
  ELSE IF bs.err # "nil"
  THEN [err |-> bs.err, h |-> bs.h, f |-> [f EXCEPT !.bits = bs.a], tot |-> bs.r.tot]
  ELSE UnmarshalHash(bs.h, [f EXCEPT !.bits = bs.a], Sum384(bs.r.hashed),
                     ReadFull(bs.r, ZeroBytes(Size384), 0))
UnmarshalKeys(h, f, ks) ==
  IF ks.err = "panic" THEN [err |-> "panic", h |-> h, f |-> f, tot |-> ks.r.tot]
  ELSE IF ks.err # "nil"
  THEN [err |-> ks.err, h |-> ks.h, f |-> [f EXCEPT !.keys = ks.a], tot |-> ks.r.tot]
  ELSE UnmarshalBits(ks.h, [f EXCEPT !.keys = ks.a],
                     unmarshalBinaryBits(ks.h, ks.r, f.m))
UnmarshalHeader(h, f, hd) ==
  IF hd.err # "nil"
  THEN [err |-> hd.err, h |-> h, f |-> [f EXCEPT !.n = hd.n, !.m = hd.m], tot |-> hd.r.tot]
  ELSE UnmarshalKeys(h, [f EXCEPT !.n = hd.n, !.m = hd.m],
                     unmarshalBinaryKeys(h, hd.r, hd.k))
UnmarshalFromReader(h, f, input) ==
  UnmarshalHeader(h, f, unmarshalBinaryHeader(NewReader(input)))

\* UnmarshalBinary: UnmarshalFromReader over a buffer holding data
UnmarshalBinary(h, f, data) == UnmarshalFromReader(h, f, NewBuffer(data))

\* ------------------------------------------------------------------------
\* The caller's view: the filter behind a slot, with its slices read out
\* ------------------------------------------------------------------------
FilterOf(fs, h, s) ==
  [m |-> fs[s].m, n |-> fs[s].n,
   keys |-> Slice(h, fs[s].keys), bits |-> Slice(h, fs[s].bits)]
F(s) == FilterOf(filters, heap, s)

\* Addresses are not observable: after each call the live arrays are
\* renumbered by the first variable that refers to them and the rest is
\* garbage.
NRoots == 2 * Cardinality(Slots) + 1
Roots(fs, c) ==
  [i \in 1..NRoots |->
     IF i = NRoots THEN c
     ELSE IF i % 2 = 1 THEN fs[(i + 1) \div 2].bits ELSE fs[i \div 2].keys]
Renum(R, a) ==
  IF a = Nil THEN Nil
  ELSE CHOOSE i \in DOMAIN R : R[i] = a /\ \A j \in DOMAIN R : R[j] = a => i <= j
Commit(fs, h, c) ==
  LET R == Roots(fs, c)
      live == {R[i] : i \in DOMAIN R} \ {Nil}
  IN /\ filters' = [s \in Slots |->
                      [fs[s] EXCEPT !.bits = Renum(R, @), !.keys = Renum(R, @)]]
     /\ heap' = [a \in {Renum(R, x) : x \in live} |-> h[R[a]]]
     /\ caller' = Renum(R, c)

Returned(op, err, ret) ==
  /\ last' = [op |-> op, err |-> err, ret |-> ret]
  /\ UNCHANGED <<wire, threads, locks>>

Usable(s) == status[s] = "ok"
SmallN(n) == Fits(n) /\ ToNat(n) < MaxN

\* ------------------------------------------------------------------------
\* Calls of the package, one action per call
\* ------------------------------------------------------------------------
\* every Filter variable is assigned once
Unset(s) == status[s] = "none"

Built(s, r) ==
  /\ status' = [status EXCEPT ![s] = "ok"]
  /\ added' = [added EXCEPT ![s] = {}]

\* keep: whether the caller holds on to the key slice it passed
DoNewWithKeys(s, m, ks, keep) ==
  LET c == Alloc(heap, ks)
      r == NewWithKeys(c.h, m, c.a)
      kept == IF keep THEN c.a ELSE caller
  IN /\ Unset(s)
     /\ Returned("NewWithKeys", r.err, FALSE)
     /\ IF r.err = "nil"
        THEN Commit([filters EXCEPT ![s] = r.f], r.h, kept) /\ Built(s, r)
        ELSE Commit(filters, c.h, kept) /\ UNCHANGED <<status, added>>

\* New(m, k): newRandKeys draws k keys, then NewWithKeys
DoNew(s, m, k) ==
  /\ Unset(s)
  /\ IF ~AllocOK(k)
     THEN /\ Returned("New", "panic", FALSE)
          /\ UNCHANGED <<filters, heap, caller, status, added>>
     ELSE \E ks \in [1..ToNat(k) -> RandKeyVals] :
            LET c == Alloc(heap, ks)
                r == NewWithKeys(c.h, m, c.a)
            IN /\ Returned("New", r.err, FALSE)
               /\ IF r.err = "nil"
                  THEN Commit([filters EXCEPT ![s] = r.f], r.h, caller) /\ Built(s, r)
                  ELSE UNCHANGED <<filters, heap, caller, status, added>>

DoNewCompatible(s, f) ==
  /\ Usable(f) /\ Unset(s)
  /\ LET r == NewCompatible(heap, filters[f])
     IN /\ Returned("NewCompatible", r.err, FALSE)
        /\ IF r.err = "nil"
           THEN Commit([filters EXCEPT ![s] = r.f], r.h, caller) /\ Built(s, r)
           ELSE UNCHANGED <<filters, heap, caller, status, added>>

DoCopy(s, f) ==
  /\ Usable(f) /\ Unset(s)
  /\ LET r == Copy(heap, filters[f])
     IN /\ Returned("Copy", r.err, FALSE)
        /\ IF r.err = "nil"
           THEN /\ Commit([filters EXCEPT ![s] = r.f], r.h, caller)
                /\ status' = [status EXCEPT ![s] = "ok"]
                /\ added' = [added EXCEPT ![s] = added[f]]
           ELSE UNCHANGED <<filters, heap, caller, status, added>>

DoKeys(f) ==
  /\ Usable(f)
  /\ LET r == Keys(heap, filters[f])
     IN Commit(filters, r.h, r.a)
  /\ Returned("Keys", "nil", FALSE)
  /\ UNCHANGED <<status, added>>

\* the caller overwrites an element of a key slice it holds, then drops it
DoCallerWrite(i, v) ==
  /\ caller # Nil /\ i \in 1..Len(heap[caller])
  /\ Commit(filters, [heap EXCEPT ![caller][i] = v], Nil)
  /\ Returned("CallerWrite", "nil", FALSE)
  /\ UNCHANGED <<status, added>>

DoAdd(f, v) ==
  /\ Usable(f) /\ SmallN(filters[f].n)
  /\ LET r == AddLoop(F(f).bits, F(f).keys, F(f).m, Sum64(v), 0)
     IN IF r.panic
        THEN /\ Returned("Add", "panic", FALSE)
             /\ Commit(filters, [heap EXCEPT ![filters[f].bits] = r.bits], caller)
             /\ UNCHANGED <<status, added>>
        ELSE /\ Returned("Add", "nil", FALSE)
             /\ Commit([filters EXCEPT ![f].n = Add64(@, One64)],
                       [heap EXCEPT ![filters[f].bits] = r.bits], caller)
             /\ added' = [added EXCEPT ![f] = @ \cup {Sum64(v)}]
             /\ UNCHANGED status

DoAddHash(f, hash) ==
  /\ Usable(f) /\ SmallN(filters[f].n)
  /\ LET r == AddHashLoop(F(f).bits, F(f).keys, F(f).m, hash, 0)
     IN IF r.panic
        THEN /\ Returned("AddHash", "panic", FALSE)
             /\ Commit(filters, [heap EXCEPT ![filters[f].bits] = r.bits], caller)
             /\ UNCHANGED <<status, added>>
        ELSE /\ Returned("AddHash", "nil", FALSE)
             /\ Commit([filters EXCEPT ![f].n = Add64(@, One64)],
                       [heap EXCEPT ![filters[f].bits] = r.bits], caller)
             /\ added' = [added EXCEPT ![f] = @ \cup {hash}]
             /\ UNCHANGED status

\* AddHash on a filter variable the caller holds, a failed UnmarshalBinary
\* into it included
DoAddHashHeld(f, hash) ==
  /\ status[f] \in {"ok", "failed"} /\ SmallN(filters[f].n)
  /\ LET r == AddHashLoop(F(f).bits, F(f).keys, F(f).m, hash, 0)
     IN IF r.panic
        THEN /\ Returned("AddHash", "panic", FALSE)
             /\ IF filters[f].bits = Nil THEN Commit(filters, heap, caller)
                ELSE Commit(filters, [heap EXCEPT ![filters[f].bits] = r.bits], caller)
             /\ UNCHANGED <<status, added>>
        ELSE /\ Returned("AddHash", "nil", FALSE)
             /\ IF filters[f].bits = Nil
                THEN Commit([filters EXCEPT ![f].n = Add64(@, One64)], heap, caller)
                ELSE Commit([filters EXCEPT ![f].n = Add64(@, One64)],
                            [heap EXCEPT ![filters[f].bits] = r.bits], caller)
             /\ added' = [added EXCEPT ![f] = @ \cup {hash}]
             /\ UNCHANGED status

DoContains(f, v) ==
  /\ Usable(f)
  /\ LET r == Contains(F(f), v)
     IN IF r = -1 THEN Returned("Contains", "panic", FALSE)
        ELSE Returned("Contains", "nil", uint64ToBool(r))
  /\ UNCHANGED <<filters, heap, caller, status, added>>

DoContainsHash(f, hash) ==
  /\ Usable(f)
  /\ LET r == ContainsHash(F(f), hash)
     IN IF r = -1 THEN Returned("ContainsHash", "panic", FALSE)
        ELSE Returned("ContainsHash", "nil", uint64ToBool(r))
  /\ UNCHANGED <<filters, heap, caller, status, added>>

SmallSum(n1, n2) == Fits(n1) /\ Fits(n2) /\ ToNat(n1) + ToNat(n2) <= MaxN

DoUnionInPlace(f, f2) ==
  /\ Usable(f) /\ Usable(f2)
  /\ SmallSum(filters[f].n, filters[f2].n)
  /\ LET r == UnionInPlace(heap, filters[f], filters[f2])
     IN /\ Returned("UnionInPlace", r.err, FALSE)
        /\ Commit([filters EXCEPT ![f] = r.f], r.h, caller)
        /\ added' = [added EXCEPT ![f] = IF r.err = "nil" THEN @ \cup added[f2] ELSE @]
  /\ UNCHANGED status

\* f.UnionInPlace(f2) on two filters that hold the same count, f2 = f
\* included: the count doubles, whatever it is
DoUnionInPlaceDouble(f, f2) ==
  /\ Usable(f) /\ Usable(f2)
  /\ filters[f].n = filters[f2].n
  /\ LET r == UnionInPlace(heap, filters[f], filters[f2])
     IN /\ Returned("UnionInPlace", r.err, FALSE)
        /\ Commit([filters EXCEPT ![f] = r.f], r.h, caller)
        /\ added' = [added EXCEPT ![f] = IF r.err = "nil" THEN @ \cup added[f2] ELSE @]
  /\ UNCHANGED status

DoUnion(s, f, f2) ==
  /\ Usable(f) /\ Usable(f2) /\ Unset(s)
  /\ SmallSum(filters[f].n, filters[f2].n)
  /\ LET r == Union(heap, filters[f], filters[f2])
     IN /\ Returned("Union", r.err, FALSE)
        /\ IF r.err = "nil"
           THEN /\ Commit([filters EXCEPT ![s] = r.f], r.h, caller)
                /\ status' = [status EXCEPT ![s] = "ok"]
                /\ added' = [added EXCEPT ![s] = added[f] \cup added[f2]]
           ELSE UNCHANGED <<filters, heap, caller, status, added>>

\* serialization: one serialized form is in flight; a byte of it may be
\* changed once on the way; it is deserialized into a new Filter or over an
\* existing one
KHi == <<U64(1), {8, 63}>>
CodecInputs == {<<U64(65), KHi>>, <<U64(2), <<U64(1)>> >>}
CodecSlots == {1, 2}
LoadInputs == CodecInputs \cup {<<UMax, <<U64(1)>> >>}
TamperVals(old) == {0, 1, 2, 255} \ {old}
NoWire ==
  [data |-> << >>, sent |-> [m |-> {}, n |-> {}, keys |-> << >>, bits |-> << >>],
   tamper |-> 0, to |-> 0, tot |-> 0]

DoMarshalBinary(f) ==
  /\ Usable(f) /\ wire = NoWire
  /\ wire' = [NoWire EXCEPT !.data = MarshalBinary(F(f)), !.sent = F(f)]
  /\ last' = [op |-> "MarshalBinary", err |-> "nil", ret |-> FALSE]
  /\ UNCHANGED <<filters, heap, status, caller, added, threads, locks>>

\* the byte at position p of the form becomes v
DoTamper(p, v) ==
  /\ wire.data # << >> /\ wire.tamper = 0 /\ last.op = "MarshalBinary"
  /\ p \in 1..(Len(wire.data) - Size384)
  /\ v \in 0..255 /\ v # ByteVal(wire.data[p])
  /\ wire' = [wire EXCEPT !.data[p] = B(v), !.tamper = p]
  /\ last' = [op |-> "Tamper", err |-> "nil", ret |-> FALSE]
  /\ UNCHANGED <<filters, heap, status, caller, added, threads, locks>>

\* a serialized form written elsewhere arrives: the layout and the digest
\* are those of the format, the filter in it is any the format can spell
ReceivedForms ==
  {[m |-> U64(2), n |-> {}, keys |-> <<U64(1), U64(1)>>, bits |-> <<{}>>],
   [m |-> U64(2), n |-> U64(1), keys |-> <<U64(3)>>, bits |-> <<{0}>>],
   [m |-> U64(65), n |-> UMax, keys |-> K21, bits |-> <<{1, 2}, {0}>>],
   [m |-> {}, n |-> {}, keys |-> <<U64(1)>>, bits |-> << >>]}
DoReceive(form) ==
  /\ wire = NoWire
  /\ wire' = [NoWire EXCEPT !.data = MarshalBinary(form), !.sent = form]
  /\ last' = [op |-> "Receive", err |-> "nil", ret |-> FALSE]
  /\ UNCHANGED <<filters, heap, status, caller, added, threads, locks>>

DoUnmarshalBinary(s) ==
  /\ wire.data # << >>
  /\ status[s] \in {"none", "ok"}
  /\ LET r == UnmarshalBinary(heap, filters[s], wire.data)
     IN /\ Commit([filters EXCEPT ![s] = r.f], r.h, caller)
        /\ status' = [status EXCEPT ![s] = IF r.err = "nil" THEN "ok" ELSE "failed"]
        /\ wire' = [wire EXCEPT !.to = s, !.tot = r.tot]
        /\ last' = [op |-> "UnmarshalBinary", err |-> r.err, ret |-> FALSE]
  /\ added' = [added EXCEPT ![s] = {}]
  /\ UNCHANGED <<threads, locks>>

\* UnmarshalFromReader over a reader that hands out the form in pieces
Chunks == {0, 3, 8}
DoUnmarshalFromReader(s, chunk, eof) ==
  /\ wire.data # << >>
  /\ status[s] \in {"none", "ok"}
  /\ LET r == UnmarshalFromReader(heap, filters[s], ChunkedReader(wire.data, chunk, eof))
     IN /\ Commit([filters EXCEPT ![s] = r.f], r.h, caller)
        /\ status' = [status EXCEPT ![s] = IF r.err = "nil" THEN "ok" ELSE "failed"]
        /\ wire' = [wire EXCEPT !.to = s, !.tot = r.tot]
        /\ last' = [op |-> "UnmarshalFromReader", err |-> r.err, ret |-> <<chunk, eof>>]
  /\ added' = [added EXCEPT ![s] = {}]
  /\ UNCHANGED <<threads, locks>>

\* ------------------------------------------------------------------------
\* Unions run by two threads, statement by statement
\* ------------------------------------------------------------------------
Threads == {1, 2}
ConcInputs(s) == IF s = 1 THEN {<<U64(65), K12>>} ELSE {<<U64(65), K12>>, <<U64(70), K12>>}
OutSlot == MaxOf(Slots)

\* sync.RWMutex: w is the thread whose Lock() is pending or granted (0: none),
\* held whether it is granted, r the threads holding RLock()
FreeLock == [w |-> 0, held |-> FALSE, r |-> {}]
\* rng is the slice a range loop of the thread iterates over, hash the value
\* Sum64() gave it
IdleThread ==
  [pc |-> "idle", op |-> "none", f |-> 0, f2 |-> 0, k |-> 1, i |-> 0, err |-> "nil",
   rng |-> Nil, v |-> [sum64 |-> {}], hash |-> {}]

\* the locks a call takes before it touches the bit arrays, in the order it
\* takes them: UnionInPlace with a read lock on f2 nested inside
UnionInPlaceLocksNested(f, f2) == << <<f, "w">>, <<f2, "r">> >>
UnionInPlaceLocks(f, f2) == << <<f, "w">> >>
UnionLocks(f, f2) == << <<f, "r">> >>
\* Add and UnmarshalFromReader start with f.lock.Lock()
AddLocks(f) == << <<f, "w">> >>
UnmarshalFromReaderLocks(f) == << <<f, "w">> >>
LocksOf(th) ==
  IF th.op = "UnionInPlace" THEN UnionInPlaceLocks(th.f, th.f2)
  ELSE IF th.op = "Union" THEN UnionLocks(th.f, th.f2)
  ELSE IF th.op = "Add" THEN AddLocks(th.f)
  ELSE UnmarshalFromReaderLocks(th.f)
\* the statement that follows the locking in each call
AfterLock(op) ==
  IF op = "Union" THEN "new"
  ELSE IF op = "UnionInPlace" THEN "range"
  ELSE IF op = "Add" THEN "hash"
  ELSE "header"

\* RLock() is granted unless a writer is pending or in; Lock() is pending
\* once no other writer is, and granted when the readers have left
CanRLock(mu) == mu.w = 0
CanLockPend(mu) == mu.w = 0
CanLockGrant(mu, t) == mu.w = t /\ ~mu.held /\ mu.r = {}
Release(mus, t) ==
  [l \in Slots |->
     [w |-> IF mus[l].w = t THEN 0 ELSE mus[l].w,
      held |-> IF mus[l].w = t THEN FALSE ELSE mus[l].held,
      r |-> mus[l].r \ {t}]]

Idle == \A t \in Threads : threads[t].pc = "idle"

\* Commit with the slices the threads hold among the roots
RootsT(fs, c, ths) == Roots(fs, c) \o [t \in 1..Cardinality(Threads) |-> ths[t].rng]
CommitT(fs, h, c, ths) ==
  LET R == RootsT(fs, c, ths)
      live == {R[i] : i \in DOMAIN R} \ {Nil}
  IN /\ filters' = [s \in Slots |->
                      [fs[s] EXCEPT !.bits = Renum(R, @), !.keys = Renum(R, @)]]
     /\ heap' = [a \in {Renum(R, x) : x \in live} |-> h[R[a]]]
     /\ caller' = Renum(R, c)
     /\ threads' = [t \in Threads |-> [ths[t] EXCEPT !.rng = Renum(R, @)]]
Frame == UNCHANGED <<filters, heap, caller, status, added, last, wire>>

\* thread t calls F(f).op(F(f2))
Call(t, op, f, f2) ==
  /\ threads[t].pc = "idle" /\ Usable(f) /\ Usable(f2)
  /\ op = "Union" => Unset(OutSlot)
  /\ threads' = [threads EXCEPT ![t] = [IdleThread EXCEPT !.pc = "compat", !.op = op,
                                                        !.f = f, !.f2 = f2]]
  /\ UNCHANGED locks /\ Frame

\* if !f.IsCompatible(f2) { return errIncompatibleBloomFilters() }
StepCompat(t) ==
  LET th == threads[t]
  IN /\ th.pc = "compat"
     /\ IF IsCompatible(heap, filters[th.f], filters[th.f2])
        THEN threads' = [threads EXCEPT ![t].pc = "lock"]
        ELSE threads' = [threads EXCEPT ![t].pc = "return", ![t].err = "incompatible"]
     /\ UNCHANGED locks /\ Frame

\* f.lock.Lock() or f.lock.RLock(): the next lock of the call
StepLock(t) ==
  LET th == threads[t]
      l == LocksOf(th)[th.k][1]
      mode == LocksOf(th)[th.k][2]
      next == IF th.k < Len(LocksOf(th)) THEN "lock" ELSE AfterLock(th.op)
  IN /\ th.pc = "lock"
     /\ \/ /\ mode = "r" /\ CanRLock(locks[l])
           /\ locks' = [locks EXCEPT ![l].r = @ \cup {t}]
           /\ threads' = [threads EXCEPT ![t].pc = next, ![t].k = @ + 1]
        \/ /\ mode = "w" /\ CanLockPend(locks[l])
           /\ locks' = [locks EXCEPT ![l].w = t]
           /\ UNCHANGED threads
        \/ /\ mode = "w" /\ CanLockGrant(locks[l], t)
           /\ locks' = [locks EXCEPT ![l].held = TRUE]
           /\ threads' = [threads EXCEPT ![t].pc = next, ![t].k = @ + 1]
     /\ Frame

\* out, err = f.NewCompatible(), that is NewWithKeys(f.m, f.keys)
StepNew(t) ==
  /\ threads[t].pc = "new"
  /\ \E b \in {newBits(heap, filters[threads[t].f].m)} :
     \E k \in {newKeysCopy(b.h, filters[threads[t].f].keys)} :
     \E r \in {NewWithKeysOf(heap, filters[threads[t].f].m, b, k)} :
        IF r.err = "nil"
        THEN CommitT([filters EXCEPT ![OutSlot] = r.f], r.h, caller,
                     [threads EXCEPT ![t].pc = "range"])
        ELSE /\ UNCHANGED <<filters, heap, caller>>
             /\ threads' = [threads EXCEPT ![t].pc = "return", ![t].err = r.err]
  /\ UNCHANGED <<locks, status, added, last, wire>>

\* range f2.bits: the slice is read once, when the loop starts
StepRange(t) ==
  /\ threads[t].pc = "range"
  /\ threads' = [threads EXCEPT ![t].pc = "loop", ![t].rng = filters[threads[t].f2].bits]
  /\ UNCHANGED <<filters, heap, caller, locks, status, added, last, wire>>

\* one round of: for i, bitword := range f2.bits { ... }; f.bits and
\* out.bits are read anew in every round
StepLoop(t) ==
  LET th == threads[t]
      fb == Slice(heap, filters[th.f].bits)
      f2b == Slice(heap, th.rng)
      dst == IF th.op = "Union" THEN filters[OutSlot].bits ELSE filters[th.f].bits
  IN /\ th.pc = "loop"
     /\ IF th.i >= Len(f2b)
        THEN CommitT(filters, heap, caller,
                     [threads EXCEPT ![t].pc = "sum", ![t].rng = Nil])
        ELSE IF th.i >= Len(fb) \/ th.i >= Len(Slice(heap, dst))
        THEN CommitT(filters, heap, caller,
                     [threads EXCEPT ![t].pc = "return", ![t].err = "panic", ![t].rng = Nil])
        ELSE CommitT(filters,
                     [heap EXCEPT ![dst][th.i + 1] = Or64(fb[th.i + 1], f2b[th.i + 1])],
                     caller, [threads EXCEPT ![t].i = @ + 1])
     /\ UNCHANGED <<locks, status, added, last, wire>>

\* f.n += f2.n, or out.n = f.n + f2.n
StepSum(t) ==
  LET th == threads[t]
      dst == IF th.op = "Union" THEN OutSlot ELSE th.f
  IN /\ th.pc = "sum"
     /\ filters' = [filters EXCEPT ![dst].n = Add64(filters[th.f].n, filters[th.f2].n)]
     /\ threads' = [threads EXCEPT ![t].pc = "return"]
     /\ UNCHANGED <<heap, caller, locks, status, added, last, wire>>

\* return: the deferred Unlock() and RUnlock() run
StepReturn(t) ==
  LET th == threads[t]
  IN /\ th.pc = "return"
     /\ locks' = Release(locks, t)
     /\ threads' = [threads EXCEPT ![t].pc = "done"]
     /\ last' = [op |-> th.op, err |-> th.err, ret |-> FALSE]
     /\ status' = IF th.op = "Union" /\ th.err = "nil"
                  THEN [status EXCEPT ![OutSlot] = "ok"]
                  ELSE IF th.op = "UnmarshalBinary"
                  THEN [status EXCEPT ![th.f] = IF th.err = "nil" THEN "ok" ELSE "failed"]
                  ELSE status
     /\ UNCHANGED <<filters, heap, caller, added, wire>>

\* thread t calls F(f).Add(v)
CallAdd(t, f, v) ==
  /\ threads[t].pc = "idle" /\ Usable(f) /\ SmallN(filters[f].n)
  /\ threads' = [threads EXCEPT ![t] = [IdleThread EXCEPT !.pc = "lock", !.op = "Add",
                                                        !.f = f, !.v = v]]
  /\ UNCHANGED locks /\ Frame

\* hash = v.Sum64(), the caller's code
StepSum64(t) ==
  /\ threads[t].pc = "hash"
  /\ threads' = [threads EXCEPT ![t].pc = "set", ![t].hash = Sum64(threads[t].v)]
  /\ UNCHANGED locks /\ Frame

\* one round of the loop of Add
StepSet(t) ==
  LET th == threads[t]
      f == FilterOf(filters, heap, th.f)
  IN /\ th.pc = "set"
     /\ IF ~(th.i < Len(f.keys))
        THEN /\ threads' = [threads EXCEPT ![t].pc = "inc"]
             /\ UNCHANGED <<filters, heap, caller>>
        ELSE IF f.m = {}
        THEN /\ threads' = [threads EXCEPT ![t].pc = "return", ![t].err = "panic"]
             /\ UNCHANGED <<filters, heap, caller>>
        ELSE \E r \in {SetBit(f.bits, Mod64(Xor64(th.hash, f.keys[th.i + 1]), f.m))} :
               IF r.panic
               THEN /\ threads' = [threads EXCEPT ![t].pc = "return", ![t].err = "panic"]
                    /\ UNCHANGED <<filters, heap, caller>>
               ELSE CommitT(filters, [heap EXCEPT ![filters[th.f].bits] = r.bits], caller,
                            [threads EXCEPT ![t].i = @ + 1])
     /\ UNCHANGED <<locks, status, added, last, wire>>

\* f.n++
StepInc(t) ==
  /\ threads[t].pc = "inc"
  /\ filters' = [filters EXCEPT ![threads[t].f].n = Add64(@, One64)]
  /\ threads' = [threads EXCEPT ![t].pc = "return"]
  /\ UNCHANGED <<heap, caller, locks, status, added, last, wire>>

\* thread t calls F(f).M(): return f.m
CallM(t, f) ==
  /\ threads[t].pc = "idle" /\ Usable(f)
  /\ threads' = [threads EXCEPT ![t] = [IdleThread EXCEPT !.pc = "m", !.op = "M", !.f = f]]
  /\ UNCHANGED locks /\ Frame
StepM(t) ==
  /\ threads[t].pc = "m"
  /\ threads' = [threads EXCEPT ![t].pc = "return", ![t].hash = filters[threads[t].f].m]
  /\ UNCHANGED locks /\ Frame

\* thread t calls F(f).UnmarshalBinary(wire.data)
CallUnmarshalBinary(t, f) ==
  /\ threads[t].pc = "idle" /\ Usable(f) /\ wire.data # << >>
  /\ threads' = [threads EXCEPT ![t] = [IdleThread EXCEPT !.pc = "lock",
                                          !.op = "UnmarshalBinary", !.f = f]]
  /\ UNCHANGED locks /\ Frame

\* k, f.n, f.m, err = unmarshalBinaryHeader(buf)
StepHeader(t) ==
  /\ threads[t].pc = "header"
  /\ \E hd \in {unmarshalBinaryHeader(NewReader(NewBuffer(wire.data)))} :
       /\ filters' = [filters EXCEPT ![threads[t].f].n = hd.n, ![threads[t].f].m = hd.m]
       /\ threads' = IF hd.err # "nil"
                     THEN [threads EXCEPT ![t].pc = "return", ![t].err = hd.err]
                     ELSE [threads EXCEPT ![t].pc = "keys"]
  /\ UNCHANGED <<heap, caller, locks, status, added, last, wire>>

\* f.keys, err = unmarshalBinaryKeys(buf, k)
StepKeys(t) ==
  /\ threads[t].pc = "keys"
  /\ \E hd \in {unmarshalBinaryHeader(NewReader(NewBuffer(wire.data)))} :
     \E ks \in {unmarshalBinaryKeys(heap, hd.r, hd.k)} :
       IF ks.err = "panic"
       THEN /\ threads' = [threads EXCEPT ![t].pc = "return", ![t].err = "panic"]
            /\ UNCHANGED <<filters, heap, caller>>
       ELSE CommitT([filters EXCEPT ![threads[t].f].keys = ks.a], ks.h, caller,
                    IF ks.err # "nil"
                    THEN [threads EXCEPT ![t].pc = "return", ![t].err = ks.err]
                    ELSE [threads EXCEPT ![t].pc = "bits"])
  /\ UNCHANGED <<locks, status, added, last, wire>>

\* f.bits, err = unmarshalBinaryBits(buf, f.m), then the digests are compared
StepBits(t) ==
  /\ threads[t].pc = "bits"
  /\ \E hd \in {unmarshalBinaryHeader(NewReader(NewBuffer(wire.data)))} :
     \E ks \in {unmarshalBinaryKeys(heap, hd.r, hd.k)} :
     \E bs \in {unmarshalBinaryBits(heap, ks.r, filters[threads[t].f].m)} :
     \E r \in {UnmarshalBits(heap, filters[threads[t].f], bs)} :
       CommitT([filters EXCEPT ![threads[t].f] = r.f], r.h, caller,
               [threads EXCEPT ![t].pc = "return", ![t].err = r.err])
  /\ UNCHANGED <<locks, status, added, last, wire>>

ThreadStep(t) ==
  \/ StepCompat(t) \/ StepLock(t) \/ StepNew(t) \/ StepRange(t)
  \/ StepLoop(t) \/ StepSum(t) \/ StepReturn(t)

Init ==
  /\ wire = NoWire
  /\ threads = [t \in Threads |-> IdleThread]
  /\ locks = [l \in Slots |-> FreeLock]
  /\ filters = [s \in Slots |-> ZeroFilter]
  /\ heap = [a \in {} |-> << >>]
  /\ status = [s \in Slots |-> "none"]
  /\ caller = Nil
  /\ last = [op |-> "none", err |-> "nil", ret |-> FALSE]
  /\ added = [s \in Slots |-> {}]

\* membership and unions over three filter variables
Next ==
  \/ \E s \in Slots : \E in \in UnionInputs(s) : DoNewWithKeys(s, in[1], in[2], FALSE)
  \/ \E s, f \in Slots : DoCopy(s, f)
  \/ \E f \in Slots, v \in Values : DoAdd(f, v)
  \/ \E f \in Slots, hash \in Hashes : DoAddHash(f, hash)
  \/ \E f, f2 \in Slots : DoUnionInPlace(f, f2)
  \/ \E s, f, f2 \in Slots : DoUnion(s, f, f2)

Spec == Init /\ [][Next]_vars

\* construction over all constructor inputs
NextBuild ==
  \/ \E s \in BuildSlots, m \in InputMs, ks \in InputKeys, keep \in BOOLEAN :
       DoNewWithKeys(s, m, ks, keep)
  \/ \E s \in BuildSlots, m \in InputMs, k \in InputKs : DoNew(s, m, k)
  \/ \E s, f \in BuildSlots : DoNewCompatible(s, f)
  \/ \E f \in BuildSlots : DoKeys(f)
  \/ \E i \in 1..2, v \in RandKeyVals : DoCallerWrite(i, v)

SpecBuild == Init /\ [][NextBuild]_vars

\* the calls on single filters
NextFilter ==
  \/ \E s \in BuildSlots : \E in \in FilterInputs : DoNewWithKeys(s, in[1], in[2], FALSE)
  \/ \E f \in BuildSlots, v \in FilterValues : DoAdd(f, v)
  \/ \E f \in BuildSlots, hash \in FilterHashes : DoAddHash(f, hash)
  \/ \E f \in BuildSlots, v \in FilterValues : DoContains(f, v)
  \/ \E f \in BuildSlots, hash \in FilterHashes : DoContainsHash(f, hash)

SpecFilter == Init /\ [][NextFilter]_vars

\* the element count under insertions and repeated unions in place
NextCount ==
  \/ \E s \in BuildSlots : DoNewWithKeys(s, U64(65), K12, FALSE)
  \/ \E f \in BuildSlots, v \in Values : DoAdd(f, v)
  \/ \E f \in BuildSlots, hash \in Hashes : DoAddHash(f, hash)
  \/ \E f, f2 \in BuildSlots : DoUnionInPlaceDouble(f, f2)

SpecCount == Init /\ [][NextCount]_vars

\* serialization and deserialization
NextCodec ==
  \/ \E in \in CodecInputs : DoNewWithKeys(1, in[1], in[2], FALSE)
  \/ \E hash \in Hashes : DoAddHash(1, hash)
  \/ \E f \in CodecSlots : DoMarshalBinary(f)
  \/ \E p \in 1..(Len(wire.data) - Size384) :
       \E v \in TamperVals(ByteVal(wire.data[p])) : DoTamper(p, v)
  \/ \E s \in CodecSlots : DoUnmarshalBinary(s)

SpecCodec == Init /\ [][NextCodec]_vars

\* deserialization from readers that hand out the form in pieces
NextChunk ==
  \/ \E in \in CodecInputs : DoNewWithKeys(1, in[1], in[2], FALSE)
  \/ \E hash \in Hashes : DoAddHash(1, hash)
  \/ \E f \in CodecSlots : DoMarshalBinary(f)
  \/ \E s \in CodecSlots, chunk \in Chunks, eof \in BOOLEAN :
       DoUnmarshalFromReader(s, chunk, eof)

SpecChunk == Init /\ [][NextChunk]_vars

\* deserialization of forms that arrive from elsewhere, into new filters and
\* over existing ones, and the calls that follow on the result
NextLoad ==
  \/ \E in \in LoadInputs : DoNewWithKeys(1, in[1], in[2], FALSE)
  \/ \E f \in CodecSlots, hash \in Hashes : DoAddHashHeld(f, hash)
  \/ \E form \in ReceivedForms : DoReceive(form)
  \/ \E s \in CodecSlots : DoUnmarshalBinary(s)
  \/ \E f \in CodecSlots : DoCopy(3, f)

SpecLoad == Init /\ [][NextLoad]_vars

\* two threads: a.UnionInPlace(b) against b.UnionInPlace(a) or b.Union(a);
\* a thread that can take a step takes one in the end
NextConc ==
  \/ \E s \in {1, 2} : \E in \in ConcInputs(s) :
       Idle /\ DoNewWithKeys(s, in[1], in[2], FALSE)
  \/ \E f \in {1, 2}, hash \in Hashes : Idle /\ DoAddHash(f, hash)
  \/ Call(1, "UnionInPlace", 1, 2)
  \/ \E op \in {"UnionInPlace", "Union"} : Call(2, op, 2, 1)
  \/ \E t \in Threads : StepCompat(t)
  \/ \E t \in Threads : StepLock(t)
  \/ \E t \in Threads : StepNew(t)
  \/ \E t \in Threads : StepRange(t)
  \/ \E t \in Threads : StepLoop(t)
  \/ \E t \in Threads : StepSum(t)
  \/ \E t \in Threads : StepReturn(t)

SpecConc ==
  Init /\ [][NextConc]_vars /\ \A t \in Threads : WF_vars(ThreadStep(t))

\* two threads: a.UnionInPlace(b) or b.M() in one, b.Add(v) or
\* b.UnmarshalBinary(data) in the other, statement by statement
RaceForms == {[m |-> U64(130), n |-> U64(1), keys |-> K12, bits |-> <<{1}, {}, {2}>>]}
NextRace ==
  \/ \E s \in {1, 2} : Idle /\ DoNewWithKeys(s, U64(65), K12, FALSE)
  \/ \E f \in {1, 2}, hash \in Hashes : Idle /\ DoAddHash(f, hash)
  \/ \E form \in RaceForms : Idle /\ DoReceive(form)
  \/ Call(1, "UnionInPlace", 1, 2)
  \/ CallM(1, 2)
  \/ \E v \in Values : CallAdd(2, 2, v)
  \/ CallUnmarshalBinary(2, 2)
  \/ \E t \in Threads : StepCompat(t)
  \/ \E t \in Threads : StepLock(t)
  \/ \E t \in Threads : StepRange(t)
  \/ \E t \in Threads : StepLoop(t)
  \/ \E t \in Threads : StepSum(t)
  \/ \E t \in Threads : StepM(t)
  \/ \E t \in Threads : StepSum64(t)
  \/ \E t \in Threads : StepSet(t)
  \/ \E t \in Threads : StepInc(t)
  \/ \E t \in Threads : StepHeader(t)
  \/ \E t \in Threads : StepKeys(t)
  \/ \E t \in Threads : StepBits(t)
  \/ \E t \in Threads : StepReturn(t)

SpecRace == Init /\ [][NextRace]_vars

\* ------------------------------------------------------------------------
\* Properties
\* ------------------------------------------------------------------------
\* compatibility as the data model states it, on filters read out of the heap
SameClass(a, b) == a.m = b.m /\ a.keys = b.keys
OrWords(x, y) == [i \in 1..Len(x) |-> x[i] \cup y[i]]
Unchanged(s) == F(s)' = F(s)
\* the arrays of slot s are referred to by no other variable
OwnStorage(fs, c, s) ==
  /\ fs[s].bits # fs[s].keys
  /\ \A t \in Slots \ {s} : {fs[s].bits, fs[s].keys} \cap {fs[t].bits, fs[t].keys} = {}
  /\ c \notin {fs[s].bits, fs[s].keys}

\* C1: no false negatives: every hash inserted into a filter by Add or
\* AddHash is reported by ContainsHash, after any further insertions and
\* unions in place, and in the filters that Union and Copy return.
NoFalseNegatives ==
  \A s \in Slots : Usable(s) => \A hash \in added[s] : ContainsHash(F(s), hash) = 1

\* a filter holds both hashes, one of them received by a union in place
NoFalseNegativesWitness ==
  /\ last.op = "UnionInPlace" /\ last.err = "nil"
  /\ \E s, t \in Slots : /\ s # t /\ Usable(s) /\ Usable(t)
                         /\ added[s] = Hashes
                         /\ added[t] # {} /\ added[t] # Hashes

\* C2: Union and UnionInPlace on filters of different bit width or different
\* key sequence return the incompatibility error and no filter, and change
\* neither operand.
IncompatibleRejected ==
  [][\A f, f2 \in Slots :
       (/\ last'.op \in {"UnionInPlace", "Union"}
        /\ Usable(f) /\ Usable(f2) /\ ~SameClass(F(f), F(f2))) =>
         /\ DoUnionInPlace(f, f2) =>
              /\ last'.err = "incompatible"
              /\ \A t \in Slots : Unchanged(t)
         /\ \A s \in Slots : DoUnion(s, f, f2) =>
              /\ last'.err = "incompatible"
              /\ status' = status
              /\ \A t \in Slots : Unchanged(t)]_vars

\* a union was rejected between filters of different width in the same
\* number of words, the argument holding bits the receiver lacks
IncompatibleRejectedWitness ==
  /\ last.op \in {"UnionInPlace", "Union"} /\ last.err = "incompatible"
  /\ \E f, f2 \in Slots :
       /\ Usable(f) /\ Usable(f2)
       /\ F(f).m # F(f2).m /\ Len(F(f).bits) = Len(F(f2).bits)
       /\ \E i \in 1..Len(F(f2).bits) : ~(F(f2).bits[i] \subseteq F(f).bits[i])

\* C8: a successful a.UnionInPlace(b) makes every word of a the OR of a's
\* and b's word, adds b.n to a.n, and leaves a's m and keys and all of b
\* unchanged.
UnionInPlaceEffect ==
  [][\A f, f2 \in Slots :
       (/\ last'.op = "UnionInPlace" /\ last'.err = "nil"
        /\ f # f2 /\ DoUnionInPlace(f, f2)) =>
         /\ SameClass(F(f), F(f2))
         /\ F(f).bits' = OrWords(F(f).bits, F(f2).bits)
         /\ ToNat(F(f).n') = ToNat(F(f).n) + ToNat(F(f2).n)
         /\ F(f).m' = F(f).m /\ F(f).keys' = F(f).keys
         /\ Unchanged(f2)]_vars

\* a union in place has given the receiver bits it lacked and a larger count
UnionInPlaceEffectWitness ==
  /\ last.op = "UnionInPlace" /\ last.err = "nil"
  /\ \E f, f2 \in Slots :
       /\ f # f2 /\ Usable(f) /\ Usable(f2)
       /\ added[f] = Hashes /\ added[f2] # {} /\ added[f2] # Hashes
       /\ ToNat(F(f).n) = 2 /\ ToNat(F(f2).n) = 1
       /\ F(f).bits # F(f2).bits

\* C9: a successful a.Union(b) returns a new filter with a's m and keys, the
\* OR of the two bit arrays and the sum of the counts; it changes neither
\* operand, and the result has storage of its own: no later insertion into
\* one filter changes another.
UnionPure ==
  [][/\ \A s, f, f2 \in Slots :
          (last'.op = "Union" /\ last'.err = "nil" /\ DoUnion(s, f, f2)) =>
            /\ SameClass(F(f), F(f2))
            /\ F(s).m' = F(f).m /\ F(s).keys' = F(f).keys
            /\ F(s).bits' = OrWords(F(f).bits, F(f2).bits)
            /\ ToNat(F(s).n') = ToNat(F(f).n) + ToNat(F(f2).n)
            /\ \A t \in Slots \ {s} : Unchanged(t)
            /\ OwnStorage(filters', caller', s)
     /\ \A f \in Slots :
          (/\ last'.op \in {"Add", "AddHash"}
           /\ \/ \E hash \in Hashes : DoAddHash(f, hash)
              \/ \E v \in Values : DoAdd(f, v))
            => \A t \in Slots \ {f} : Unchanged(t)]_vars

\* Union has returned a filter holding both hashes from operands holding
\* one each
UnionPureWitness ==
  /\ last.op = "Union" /\ last.err = "nil"
  /\ \E s, f, f2 \in Slots :
       /\ Cardinality({s, f, f2}) = 3
       /\ added[s] = Hashes /\ Cardinality(added[f]) = 1 /\ Cardinality(added[f2]) = 1
       /\ added[f] # added[f2]
       /\ ToNat(F(s).n) = 2

\* C10: on pairwise compatible filters A, B, C the bit array of Union(A,B)
\* equals that of Union(B,A), and that of Union(Union(A,B),C) equals that of
\* Union(A,Union(B,C)).
UnionBits(r) == Slice(r.h, r.f.bits)
UnionCommAssoc ==
  \A a, b, c \in Slots :
    (/\ Usable(a) /\ Usable(b) /\ Usable(c)
     /\ SameClass(F(a), F(b)) /\ SameClass(F(b), F(c))) =>
       LET ab == Union(heap, filters[a], filters[b])
           ba == Union(heap, filters[b], filters[a])
           bc == Union(heap, filters[b], filters[c])
           abc1 == Union(ab.h, ab.f, filters[c])
           abc2 == Union(bc.h, filters[a], bc.f)
       IN /\ ab.err = "nil" /\ ba.err = "nil" /\ abc1.err = "nil" /\ abc2.err = "nil"
          /\ UnionBits(ab) = UnionBits(ba)
          /\ UnionBits(abc1) = UnionBits(abc2)

\* three compatible filters with three different non-empty bit arrays
UnionCommAssocWitness ==
  /\ \A s \in Slots : Usable(s) /\ SameClass(F(s), F(1))
  /\ \A s \in Slots : \E i \in 1..Len(F(s).bits) : F(s).bits[i] # {}
  /\ Cardinality({F(s).bits : s \in Slots}) = 3

\* C7: NewWithKeys(m, keys) fails with a configuration error exactly when
\* m < 2, or there is no key, or two keys are equal; otherwise it returns a
\* filter of width m with a private copy of the keys in order, ceil(m/64)
\* zero words and n = 0. New(m, k) fails when m < 2 or k < 1, and New(2, 1)
\* succeeds.
Distinct(ks) == \A i, j \in 1..Len(ks) : i # j => ks[i] # ks[j]
ValidInput(m, ks) == ToNat(m) >= 2 /\ Len(ks) >= 1 /\ Distinct(ks)
ConstructionValidated ==
  [][/\ \A s \in BuildSlots, m \in InputMs, ks \in InputKeys, keep \in BOOLEAN :
          (last'.op = "NewWithKeys" /\ DoNewWithKeys(s, m, ks, keep)) =>
            IF ValidInput(m, ks)
            THEN /\ last'.err = "nil"
                 /\ F(s)' = [m |-> m, n |-> {}, keys |-> ks,
                             bits |-> [i \in 1..((ToNat(m) + 63) \div 64) |-> {}]]
                 /\ OwnStorage(filters', caller', s)
            ELSE /\ last'.err = "config"
                 /\ filters' = filters /\ status' = status
     /\ \A s \in BuildSlots, m \in InputMs, k \in InputKs :
          (last'.op = "New" /\ DoNew(s, m, k)) =>
            /\ (ToNat(m) < 2 \/ k = {}) => (last'.err # "nil" /\ status' = status)
            /\ ((m = U64(1) /\ k = U64(1)) \/ (m = U64(2) /\ k = U64(0))) =>
                 last'.err = "config"
            /\ (m = U64(2) /\ k = U64(1)) =>
                 /\ last'.err = "nil" /\ status'[s] = "ok"
                 /\ F(s).m' = m /\ Len(F(s).keys') = 1
                 /\ F(s).bits' = <<{}>> /\ F(s).n' = {}
     /\ \A i \in 1..2, v \in RandKeyVals :
          (last'.op = "CallerWrite" /\ DoCallerWrite(i, v)) =>
            \A t \in Slots : Unchanged(t)]_vars

\* NewWithKeys has built a two-word filter from a slice the caller still
\* holds
ConstructionValidatedWitness ==
  /\ last.op = "NewWithKeys" /\ last.err = "nil"
  /\ caller # Nil
  /\ \E s \in BuildSlots :
       /\ Usable(s) /\ F(s).m = U64(65) /\ F(s).keys = heap[caller]
       /\ F(s).bits = <<{}, {}>> /\ filters[s].keys # caller

\* C11: a successful Copy returns a filter with the m, keys, bit words and n
\* the source has at that time, in arrays no other variable refers to; every
\* later Add, AddHash and UnionInPlace changes its receiver only, so that
\* the copy and the source change independently.
CopyIndependent ==
  [][/\ \A s, f \in Slots :
          (last'.op = "Copy" /\ last'.err = "nil" /\ DoCopy(s, f)) =>
            /\ F(s)' = F(f)
            /\ \A t \in Slots \ {s} : Unchanged(t)
            /\ OwnStorage(filters', caller', s)
     /\ \A f \in Slots :
          (/\ last'.op \in {"Add", "AddHash", "UnionInPlace"}
           /\ \/ \E hash \in Hashes : DoAddHash(f, hash)
              \/ \E v \in Values : DoAdd(f, v)
              \/ \E f2 \in Slots : DoUnionInPlace(f, f2))
            => \A t \in Slots \ {f} : Unchanged(t)]_vars

\* Copy has returned a filter equal to a source that holds both hashes
CopyIndependentWitness ==
  /\ last.op = "Copy" /\ last.err = "nil"
  /\ \E s, f \in Slots :
       /\ s # f /\ Usable(s) /\ Usable(f)
       /\ F(s) = F(f) /\ added[f] = Hashes /\ ToNat(F(s).n) = 2
       /\ \E i \in 1..Len(F(s).bits) : F(s).bits[i] # {}
       /\ OwnStorage(filters, caller, s)

\* C12: Add, AddHash and a successful UnionInPlace never make the count n of
\* a filter smaller than it was.
CountMonotone ==
  [][(last'.op \in {"Add", "AddHash", "UnionInPlace"} /\ last'.err = "nil") =>
       \A s \in Slots : ~Lt64(filters'[s].n, filters[s].n)]_vars

\* C13: the keys of every filter that a constructor or a successful
\* deserialization has produced or overwritten are pairwise distinct.
KeysDistinct ==
  \A s \in Slots : status[s] = "ok" => Distinct(F(s).keys)

\* ------------------------------------------------------------------------
\* Properties of the calls on single filters, under SpecFilter
\* ------------------------------------------------------------------------
\* the indices of the 1 bits of a bit array, and the indices
\* (hash XOR key_i) mod m in integer arithmetic
BitsOf(bits) == UNION {{64 * (i - 1) + p : p \in bits[i]} : i \in 1..Len(bits)}
IndicesOf(f, hash) == {ToNat(Xor64(hash, f.keys[i])) % ToNat(f.m) : i \in 1..Len(f.keys)}

\* C14: AddHash(h) sets exactly the bits (h XOR key_i) mod m, leaves the
\* other bits, m and the keys as they were and adds 1 to n, also when the
\* bits were set already; Add(v) with v.Sum64() = h does the same.
AddHashEffect ==
  [][\A f \in BuildSlots, hash \in FilterHashes :
       (/\ last'.op \in {"Add", "AddHash"}
        /\ DoAddHash(f, hash) \/ DoAdd(f, [sum64 |-> hash])) =>
         /\ last'.err = "nil"
         /\ Len(F(f).bits') = Len(F(f).bits)
         /\ BitsOf(F(f).bits') = BitsOf(F(f).bits) \cup IndicesOf(F(f), hash)
         /\ F(f).m' = F(f).m /\ F(f).keys' = F(f).keys
         /\ ToNat(F(f).n') = ToNat(F(f).n) + 1
         /\ \A t \in Slots \ {f} : Unchanged(t)]_vars

\* NewWithKeys(64, [1, 2, 3]), then AddHash(42) twice: bits 43, 40 and 41
\* and no others, n = 2
AddHashEffectWitness ==
  /\ last.op = "AddHash" /\ last.err = "nil"
  /\ \E f \in BuildSlots :
       /\ Usable(f) /\ F(f).m = U64(64) /\ F(f).keys = K123
       /\ F(f).bits = <<{40, 41, 43}>> /\ F(f).n = U64(2)
       /\ added[f] = {U64(42)}

\* C15: ContainsHash(h) is true exactly when every bit (h XOR key_i) mod m
\* is 1, Contains(v) with v.Sum64() = h returns the same, and neither
\* changes a filter.
ContainsEffect ==
  [][\A f \in BuildSlots, hash \in FilterHashes :
       (/\ last'.op \in {"Contains", "ContainsHash"}
        /\ DoContainsHash(f, hash) \/ DoContains(f, [sum64 |-> hash])) =>
         /\ last'.err = "nil"
         /\ last'.ret = (IndicesOf(F(f), hash) \subseteq BitsOf(F(f).bits))
         /\ filters' = filters /\ heap' = heap]_vars

\* ContainsHash(41) is false on NewWithKeys(64, [1, 2, 3]) holding 42: the
\* bits of the first two keys are 1, the bit of the third is 0
ContainsEffectWitness ==
  /\ last.op = "ContainsHash" /\ last.err = "nil" /\ last.ret = FALSE
  /\ \E f \in BuildSlots :
       /\ Usable(f) /\ F(f).keys = K123 /\ F(f).bits = <<{40, 41, 43}>>
       /\ IndicesOf(F(f), U64(41)) \cap BitsOf(F(f).bits) = {40, 43}
       /\ \A h \in FilterHashes \ {U64(41)} :
            IndicesOf(F(f), h) \subseteq BitsOf(F(f).bits)
            \/ IndicesOf(F(f), h) \cap BitsOf(F(f).bits) = {}

\* C16: every filter the caller holds, after constructors, insertions and
\* deserializations into it, the failed ones included, has m >= 2, at least
\* one key and ceil(m/64) bit words, and no Add or Contains on it aborts.
CeilWords(m) == Add64(Shr64(m, 6), IF m \cap 0..5 # {} THEN One64 ELSE {})
WellFormed(f) ==
  /\ ~Lt64(f.m, MMin64)
  /\ Len(f.keys) >= KMin
  /\ U64(Len(f.bits)) = CeilWords(f.m)
StructureKept ==
  /\ \A s \in Slots : status[s] # "none" => WellFormed(F(s))
  /\ last.op \in {"Add", "AddHash", "Contains", "ContainsHash"} => last.err # "panic"

\* ------------------------------------------------------------------------
\* Properties of the binary form, under SpecCodec
\* ------------------------------------------------------------------------
Deserialized == last.op = "UnmarshalBinary"
HeaderLen == 3 * Uint64Bytes
\* the fields of the header as the bytes of the form spell them
KFieldZero(data) == \A i \in 1..Uint64Bytes : ByteVal(data[i]) = 0
MFieldBelow2(data) ==
  /\ ByteVal(data[2 * Uint64Bytes + 1]) < MMin
  /\ \A i \in (2 * Uint64Bytes + 2)..(3 * Uint64Bytes) : ByteVal(data[i]) = 0

\* C4: deserializing the serialized form of a valid filter, unchanged on the
\* way, succeeds and gives a filter with the same m, n, keys and bit words.
RoundTrip ==
  (Deserialized /\ wire.tamper = 0) =>
     /\ last.err = "nil"
     /\ status[wire.to] = "ok"
     /\ F(wire.to) = wire.sent

RoundTripWitness ==
  /\ Deserialized /\ wire.tamper = 0 /\ last.err = "nil"
  /\ F(wire.to) = wire.sent
  /\ wire.sent.keys = KHi /\ wire.sent.n = U64(2)
  /\ wire.sent.bits # Zeros(Len(wire.sent.bits))
  /\ wire.tot = Len(wire.data)

\* C5 as stated: a form with one byte of its header, keys or bit words
\* changed is refused with the digest mismatch error.
TamperDetected ==
  (Deserialized /\ wire.tamper # 0) => last.err = "errHash"

\* C5, amended: such a form is never accepted.  A changed byte of n, of a
\* key or of a bit word is refused with the digest mismatch error; a changed
\* byte of k or m is refused with that error, with the error for k or m too
\* small, with an end-of-input error, or the call aborts allocating.
TamperRefused ==
  (Deserialized /\ wire.tamper # 0) =>
     /\ last.err # "nil"
     /\ status[wire.to] = "failed"
     /\ (wire.tamper \in (Uint64Bytes + 1)..(2 * Uint64Bytes)
           \/ wire.tamper > HeaderLen) => last.err = "errHash"
     /\ last.err \in {"errHash", "errK", "errM", "EOF", "UnexpectedEOF", "panic"}

TamperRefusedWitness ==
  /\ Deserialized /\ wire.tamper \in 1..Uint64Bytes
  /\ last.err = "errK" /\ status[wire.to] = "failed"

\* C6: a header with k < 1 is refused with the error for k, a header with
\* m < 2 with the error for m; no more than the 24 bytes of the header are
\* read and no storage for keys or bits is allocated.
FailFast ==
  [][(last'.op = "UnmarshalBinary"
        /\ (KFieldZero(wire.data) \/ MFieldBelow2(wire.data))) =>
       /\ last'.err = IF KFieldZero(wire.data) THEN "errK" ELSE "errM"
       /\ wire'.tot <= HeaderLen
       /\ heap' = heap
       /\ \A s \in Slots : /\ filters'[s].keys = filters[s].keys
                           /\ filters'[s].bits = filters[s].bits]_vars

FailFastWitness ==
  /\ Deserialized /\ last.err = "errM" /\ wire.tot = HeaderLen
  /\ MFieldBelow2(wire.data) /\ ~KFieldZero(wire.data)

\* ------------------------------------------------------------------------
\* Properties of concurrent unions, under SpecConc
\* ------------------------------------------------------------------------
\* thread t stands at a lock it cannot take; thread t has lock l
WaitsFor(t, l) ==
  LET th == threads[t]
  IN /\ th.pc = "lock" /\ LocksOf(th)[th.k][1] = l
     /\ IF LocksOf(th)[th.k][2] = "r" THEN ~CanRLock(locks[l])
        ELSE ~CanLockPend(locks[l]) /\ ~CanLockGrant(locks[l], t)
Holds(t, l) == (locks[l].w = t /\ locks[l].held) \/ t \in locks[l].r
CrossWait ==
  \E t, u \in Threads : \E l, j \in Slots :
    t # u /\ WaitsFor(t, l) /\ Holds(u, l) /\ WaitsFor(u, j) /\ Holds(t, j)
Running(t) == threads[t].pc \notin {"idle", "done"}

\* C3: with a.UnionInPlace(b) in one thread and b.UnionInPlace(a) or
\* b.Union(a) in another, no state has each thread waiting for a lock the
\* other holds, and every call that was made returns.
CrossedUnionsReturn ==
  /\ [](~CrossWait)
  /\ \A t \in Threads : Running(t) ~> (threads[t].pc = "done")

\* both calls were in their loops together and both have returned
CrossedUnionsReturnWitness ==
  /\ \A t \in Threads : threads[t].pc = "done" /\ threads[t].err = "nil"
  /\ threads[1].op = "UnionInPlace" /\ threads[2].op = "UnionInPlace"
  /\ threads[1].f = threads[2].f2 /\ threads[2].f = threads[1].f2
  /\ filters[1].n # {} /\ filters[2].n # {}

\* C20: UnmarshalFromReader of the serialized form of a valid filter succeeds
\* and gives the same filter, however the reader splits the form into
\* reads.
ChunkingIndependent ==
  (last.op = "UnmarshalFromReader" /\ wire.tamper = 0) =>
     /\ last.err = "nil"
     /\ status[wire.to] = "ok"
     /\ F(wire.to) = wire.sent

\* ------------------------------------------------------------------------
\* Properties of the locking, under SpecRace
\* ------------------------------------------------------------------------
\* the fields of filter l that the statement thread t stands at writes while
\* t has the exclusive lock of l; "words" are the elements of the bit array
WritesLocked(t, l) ==
  LET th == threads[t]
  IN IF ~(th.f = l /\ locks[l].w = t /\ locks[l].held) THEN {}
     ELSE IF th.pc = "set" \/ (th.op = "UnionInPlace" /\ th.pc = "loop") THEN {"words"}
     ELSE IF th.pc = "inc" \/ (th.op = "UnionInPlace" /\ th.pc = "sum") THEN {"n"}
     ELSE IF th.pc = "header" THEN {"n", "m"}
     ELSE IF th.pc = "keys" THEN {"keys"}
     ELSE IF th.pc = "bits" THEN {"bits"}
     ELSE {}
\* the fields of filter l that the statement thread u stands at reads while
\* u has no lock of l
ReadsUnlocked(u, l) ==
  LET th == threads[u]
  IN IF Holds(u, l) THEN {}
     ELSE IF th.pc = "range" /\ th.f2 = l THEN {"bits"}
     ELSE IF th.pc = "loop" /\ th.rng = filters[l].bits THEN {"words"}
     ELSE IF th.pc = "sum" /\ th.f2 = l THEN {"n"}
     ELSE IF th.pc = "m" /\ th.f = l THEN {"m"}
     ELSE {}

\* C17: while a thread holds the exclusive lock of a filter and writes its
\* bits, keys, m or n, no other thread reads them without holding the lock
\* of that filter.
LockDiscipline ==
  \A t, u \in Threads : \A l \in Slots :
    t # u => WritesLocked(t, l) \cap ReadsUnlocked(u, l) = {}

\* C18: v.Sum64() is called, and the byte stream is read, only while the
\* thread holds no lock.
LockScope ==
  \A t \in Threads :
    threads[t].pc \in {"hash", "header", "keys", "bits"} => \A l \in Slots : ~Holds(t, l)

\* C19: every round of the loop of UnionInPlace and Union that ORs a word
\* finds the two filters compatible and the word inside the receiver's array.
UnionChecked ==
  [][\A t \in Threads :
       (/\ threads[t].pc = "loop"
        /\ threads[t].i < Len(Slice(heap, threads[t].rng))
        /\ StepLoop(t)) =>
         /\ SameClass(F(threads[t].f), F(threads[t].f2))
         /\ threads'[t].err = "nil"]_vars

====
